---------------------------- MODULE Spec2Model ----------------------------
(***************************************************************************)
(* Model of the AuthGate browser SDK (index.ts): the CSRF cookie read,     *)
(* logout, refreshSession, the refresh-once wrapper authFetch and          *)
(* getCurrentUser.                                                         *)
(*                                                                         *)
(* A JavaScript string is modelled as the sequence of its UTF-16 code      *)
(* units, so that split, startsWith, decodeURIComponent and                *)
(* encodeURIComponent are computed and not assumed.  `null`/`undefined`    *)
(* is the empty tuple << >> and a present value v is the one-element tuple *)
(* << v >>.                                                                *)
(***************************************************************************)
EXTENDS Integers, Sequences, FiniteSets, TLC

(***************************************************************************)
(* String literals of the source, as code-unit sequences.                  *)
(***************************************************************************)
\* "authgate_csrf"
CSRF_COOKIE == <<97, 117, 116, 104, 103, 97, 116, 101, 95, 99, 115, 114, 102>>
\* "/auth/logout"
LOGOUT_URL == <<47, 97, 117, 116, 104, 47, 108, 111, 103, 111, 117, 116>>
\* "/auth/refresh?audience="
REFRESH_URL_PREFIX ==
  <<47, 97, 117, 116, 104, 47, 114, 101, 102, 114, 101, 115, 104, 63,
    97, 117, 100, 105, 101, 110, 99, 101, 61>>
\* "/auth/user"
USER_URL == <<47, 97, 117, 116, 104, 47, 117, 115, 101, 114>>
\* "app"
DEFAULT_AUDIENCE == <<97, 112, 112>>
\* "; "
COOKIE_SEP == <<59, 32>>
\* "="
EQ == <<61>>

NULL == << >>
Just(v) == << v >>

(***************************************************************************)
(* Completion values of a synchronous evaluation.                          *)
(***************************************************************************)
URIError == [name |-> "URIError"]
Normal(v) == [type |-> "normal", value |-> v]
Throw(e) == [type |-> "throw", error |-> e]

(***************************************************************************)
(* ECMAScript built-ins used by the source.                                *)
(***************************************************************************)
\* String.prototype.startsWith
startsWith(s, p) == Len(s) >= Len(p) /\ SubSeq(s, 1, Len(p)) = p

MatchAt(s, sep, k) ==
  k + Len(sep) - 1 <= Len(s) /\ SubSeq(s, k, k + Len(sep) - 1) = sep

RECURSIVE SplitAcc(_, _, _, _)
SplitAcc(s, sep, k, cur) ==
  IF k > Len(s) THEN << cur >>
  ELSE IF MatchAt(s, sep, k)
       THEN << cur >> \o SplitAcc(s, sep, k + Len(sep), << >>)
       ELSE SplitAcc(s, sep, k + 1, Append(cur, s[k]))

\* String.prototype.split with a non-empty separator
Split(s, sep) == SplitAcc(s, sep, 1, << >>)

IsHexDigit(c) == c \in (48..57) \cup (65..70) \cup (97..102)
HexValue(c) == IF c \in 48..57 THEN c - 48
               ELSE IF c \in 65..70 THEN c - 55 ELSE c - 87
HexDigit(d) == IF d < 10 THEN 48 + d ELSE 55 + d
\* "%XY" for the octet b, upper-case hexadecimal
PercentOctet(b) == <<37, HexDigit(b \div 16), HexDigit(b % 16)>>

\* is s[k..k+2] an escape "%XY"
HasEscape(s, k) ==
  /\ k + 2 <= Len(s)
  /\ s[k] = 37
  /\ IsHexDigit(s[k + 1])
  /\ IsHexDigit(s[k + 2])
EscapeOctet(s, k) == 16 * HexValue(s[k + 1]) + HexValue(s[k + 2])

\* number of leading 1 bits of an octet >= 128 (5 stands for "more than 4")
LeadingOnes(b) ==
  IF b < 192 THEN 1 ELSE IF b < 224 THEN 2 ELSE IF b < 240 THEN 3
  ELSE IF b < 248 THEN 4 ELSE 5

IsContinuation(s, k) ==
  HasEscape(s, k) /\ EscapeOctet(s, k) \in 128..191

\* the code point of the n-octet UTF-8 sequence escaped at s[k..]
Utf8CodePoint(s, k, n) ==
  LET b(j) == EscapeOctet(s, k + 3 * j) IN
  IF n = 2 THEN (b(0) - 192) * 64 + (b(1) - 128)
  ELSE IF n = 3 THEN (b(0) - 224) * 4096 + (b(1) - 128) * 64 + (b(2) - 128)
  ELSE (b(0) - 240) * 262144 + (b(1) - 128) * 4096
         + (b(2) - 128) * 64 + (b(3) - 128)

\* a well-formed UTF-8 sequence: shortest form, no surrogate, in range
ValidCodePoint(cp, n) ==
  IF n = 2 THEN cp >= 128
  ELSE IF n = 3 THEN cp >= 2048 /\ cp \notin 55296..57343
  ELSE cp >= 65536 /\ cp <= 1114111

\* the UTF-16 code units of a code point
Utf16(cp) ==
  IF cp < 65536 THEN << cp >>
  ELSE << 55296 + ((cp - 65536) \div 1024), 56320 + ((cp - 65536) % 1024) >>

\* the UTF-8 octets of a code point
Utf8(cp) ==
  IF cp < 128 THEN << cp >>
  ELSE IF cp < 2048 THEN << 192 + (cp \div 64), 128 + (cp % 64) >>
  ELSE IF cp < 65536
       THEN << 224 + (cp \div 4096), 128 + ((cp \div 64) % 64), 128 + (cp % 64) >>
       ELSE << 240 + (cp \div 262144), 128 + ((cp \div 4096) % 64),
               128 + ((cp \div 64) % 64), 128 + (cp % 64) >>

\* prepend code units to a completion that carries a string
Prefixed(p, c) == IF c.type = "normal" THEN Normal(p \o c.value) ELSE c

RECURSIVE DecodeFrom(_, _)
DecodeFrom(s, k) ==
  IF k > Len(s) THEN Normal(<< >>)
  ELSE IF s[k] # 37 THEN Prefixed(<< s[k] >>, DecodeFrom(s, k + 1))
  ELSE IF ~HasEscape(s, k) THEN Throw(URIError)
  ELSE LET B == EscapeOctet(s, k)
           n == LeadingOnes(B)
       IN IF B < 128 THEN Prefixed(<< B >>, DecodeFrom(s, k + 3))
          ELSE IF n = 1 \/ n > 4 THEN Throw(URIError)
          ELSE IF \E j \in 1..(n - 1) : ~IsContinuation(s, k + 3 * j)
               THEN Throw(URIError)
          ELSE LET cp == Utf8CodePoint(s, k, n)
               IN IF ~ValidCodePoint(cp, n) THEN Throw(URIError)
                  ELSE Prefixed(Utf16(cp), DecodeFrom(s, k + 3 * n))

\* decodeURIComponent: a completion, the decoded string or a URIError
decodeURIComponent(s) == DecodeFrom(s, 1)

\* A-Z a-z 0-9 - _ . ! ~ * ' ( )
IsUnreserved(c) ==
  c \in (65..90) \cup (97..122) \cup (48..57) \cup {45, 95, 46, 33, 126, 42, 39, 40, 41}

RECURSIVE PercentOctets(_)
PercentOctets(bs) ==
  IF bs = << >> THEN << >>
  ELSE PercentOctet(Head(bs)) \o PercentOctets(Tail(bs))

RECURSIVE EncodeFrom(_, _)
EncodeFrom(s, k) ==
  IF k > Len(s) THEN Normal(<< >>)
  ELSE IF IsUnreserved(s[k]) THEN Prefixed(<< s[k] >>, EncodeFrom(s, k + 1))
  ELSE IF s[k] \in 56320..57343 THEN Throw(URIError)
  ELSE IF s[k] \in 55296..56319
       THEN IF k + 1 > Len(s) \/ s[k + 1] \notin 56320..57343
            THEN Throw(URIError)
            ELSE Prefixed(
                   PercentOctets(Utf8((s[k] - 55296) * 1024 + (s[k + 1] - 56320) + 65536)),
                   EncodeFrom(s, k + 2))
       ELSE Prefixed(PercentOctets(Utf8(s[k])), EncodeFrom(s, k + 1))

\* encodeURIComponent: a completion, the encoded string or a URIError
encodeURIComponent(s) == EncodeFrom(s, 1)

\* JavaScript truthiness of a `string | null | undefined`
Truthy(v) == v # NULL /\ v[1] # << >>

\* Response.ok
ResponseOk(status) == status \in 200..299

(***************************************************************************)
(* getCookie / getCSRFToken                                                *)
(***************************************************************************)
\* Array.prototype.find: the index of the first entry starting with prefix
FindIndex(entries, prefix) ==
  LET hits == {i \in 1..Len(entries) : startsWith(entries[i], prefix)}
  IN IF hits = {} THEN NULL
     ELSE Just(CHOOSE i \in hits : \A j \in hits : i <= j)

\* mutant: the value is returned as stored
getCookie_raw(documentCookie, name) ==
  LET entries == Split(documentCookie, COOKIE_SEP)
      match == FindIndex(entries, name \o EQ)
  IN IF match = NULL THEN Normal(NULL)
     ELSE Normal(Just(Split(entries[match[1]], EQ)[2]))

getCookie(documentCookie, name) ==
  LET entries == Split(documentCookie, COOKIE_SEP)
      match == FindIndex(entries, name \o EQ)
  IN IF match = NULL THEN Normal(NULL)
     ELSE LET d == decodeURIComponent(Split(entries[match[1]], EQ)[2])
          IN IF d.type = "normal" THEN Normal(Just(d.value)) ELSE d

getCSRFToken(documentCookie) == getCookie(documentCookie, CSRF_COOKIE)


(***************************************************************************)
(* Inputs of the model.                                                    *)
(***************************************************************************)
\* longest raw value of the authgate_csrf cookie that is enumerated
MaxValueLen == 1

BoundedSeq(S, n) == UNION {[1..k -> S] : k \in 0..n}

\* 'a', '%'
CookieValueChars == {97, 37}

\* "theme=a"
OTHER_COOKIE == <<116, 104, 101, 109, 101, 61, 97>>

\* The strings document.cookie can hold: no cookie, only another cookie,
\* the CSRF cookie with each enumerated raw value, the CSRF cookie with the
\* raw value "a%20b" behind another cookie, and the CSRF cookie with the raw
\* value "a=b".
CookieStrings ==
  {<< >>, OTHER_COOKIE}
    \cup {CSRF_COOKIE \o EQ \o v : v \in BoundedSeq(CookieValueChars, MaxValueLen)}
    \cup {OTHER_COOKIE \o COOKIE_SEP \o CSRF_COOKIE \o EQ \o <<97, 37, 50, 48, 98>>}
    \cup {CSRF_COOKIE \o EQ \o <<97, 61, 98>>}

\* HTTP statuses a request can complete with
Statuses == {200, 204, 401, 403, 500}

\* How a fetch settles: a response with a status, or a transport rejection
Outcomes == {[kind |-> "response", status |-> s] : s \in Statuses}
              \cup {[kind |-> "reject"]}

\* "/api/data"
API_DATA == <<47, 97, 112, 105, 47, 100, 97, 116, 97>>
\* "/admin/api/users"
ADMIN_API_USERS ==
  <<47, 97, 100, 109, 105, 110, 47, 97, 112, 105, 47, 117, 115, 101, 114, 115>>

\* The (input, init) pairs a caller passes to authFetch: a bare URL, a URL
\* with {method, body}, another URL with {credentials, headers}
AppCalls ==
  { [input |-> API_DATA, init |-> << >>],
    [input |-> API_DATA, init |-> [method |-> "POST", body |-> "b"]],
    [input |-> ADMIN_API_USERS,
     init |-> [credentials |-> "omit", headers |-> [h \in {"X-Test"} |-> "1"]]] }

\* "admin", "a b", and a lone high surrogate (not encodable)
Audiences == { <<97, 100, 109, 105, 110>>, <<97, 32, 98>>, <<55296>> }

\* the `opts` argument of authFetch and getCurrentUser
AudienceOpts ==
  {NULL, Just([audience |-> NULL])}
    \cup {Just([audience |-> Just(a)]) : a \in Audiences}

\* the `audience` argument of refreshSession (undefined takes the default)
AudienceArgs == {NULL} \cup {Just(a) : a \in Audiences}

\* "/after", ""
RedirectTargets == { <<47, 97, 102, 116, 101, 114>>, << >> }

\* the `opts` argument of logout
LogoutOpts ==
  {NULL, Just([redirectTo |-> NULL])}
    \cup {Just([redirectTo |-> Just(r)]) : r \in RedirectTargets}

\* "/app": window.location.href before any navigation
INITIAL_HREF == <<47, 97, 112, 112>>

\* what `await res.json()` settles to: a parse failure or the parsed body
JsonOutcomes == {[kind |-> "reject"],
                 [kind |-> "parsed",
                  body |-> [id |-> "1", email |-> "a@b", username |-> "a"]]}

(***************************************************************************)
(* State.                                                                  *)
(*   cookie  document.cookie                                               *)
(*   href    window.location.href                                          *)
(*   calls   per caller, the invocation it runs: its operation, where it   *)
(*           is suspended, its arguments and locals, and its observable    *)
(*           history: the requests it has issued (log), the call site of   *)
(*           each (sites), those still in flight (pending), how each       *)
(*           settled (outcomes), its reads of document.cookie (reads), the *)
(*           navigation it performed (nav), how its res.json() settled     *)
(*           (json) and the settlement of its promise (result).            *)
(***************************************************************************)
VARIABLES cookie, href, calls

vars == <<cookie, href, calls>>

Idle ==
  [op |-> "idle", pc |-> "idle", args |-> NULL, af |-> NULL, log |-> << >>,
   sites |-> << >>, pending |-> {}, outcomes |-> << >>, reads |-> << >>,
   res |-> NULL, refreshed |-> NULL,
   nav |-> NULL, afResult |-> NULL, json |-> NULL, result |-> NULL]

TypeError(k) == [name |-> "TypeError", req |-> k]
Response(k, status) == [req |-> k, status |-> status]

(***************************************************************************)
(* authFetch helpers                                                       *)
(***************************************************************************)
\* mutant: { credentials: "include", ...init }, the caller's credentials win
withCredentials_overridable(init) ==
  [k \in (DOMAIN init) \cup {"credentials"} |->
     IF k \in DOMAIN init THEN init[k] ELSE "include"]

\* { ...init, credentials: "include" }
withCredentials(init) ==
  [k \in (DOMAIN init) \cup {"credentials"} |->
     IF k = "credentials" THEN "include" ELSE init[k]]

\* opts?.audience ?? "app"
audienceOf(opts) ==
  IF opts = NULL \/ opts[1].audience = NULL
  THEN DEFAULT_AUDIENCE ELSE opts[1].audience[1]

\* fetch(input, withCredentials(init)): the request as fetch receives it
appRequest(input, init) == [input |-> input, init |-> withCredentials(init)]

\* mutant: a 403 is taken for an expired session as well
needsRefresh_403(status) == status \in {401, 403}

\* res.status !== 401 is false: the response asks for a refresh
needsRefresh(status) == status = 401

(***************************************************************************)
(* refreshSession helpers                                                  *)
(***************************************************************************)
\* audience: string = "app"
audienceParam(arg) == IF arg = NULL THEN DEFAULT_AUDIENCE ELSE arg[1]

\* mutant: the audience is interpolated into the URL without encoding
refreshRequest_raw(audience, csrf) ==
  Normal([input |-> REFRESH_URL_PREFIX \o audience,
          init |-> [method |-> "POST",
                    headers |-> [h \in {"X-CSRF-Token"} |-> csrf],
                    credentials |-> "include"]])

\* the arguments of the fetch inside refreshSession's try block; evaluating
\* the template literal can throw (encodeURIComponent), inside the try
refreshRequest(audience, csrf) ==
  LET enc == encodeURIComponent(audience)
  IN IF enc.type = "throw" THEN enc
     ELSE Normal([input |-> REFRESH_URL_PREFIX \o enc.value,
                  init |-> [method |-> "POST",
                            headers |-> [h \in {"X-CSRF-Token"} |-> csrf],
                            credentials |-> "include"]])

\* mutant: no guard on the token, the header carries csrf ?? ""
refreshSessionStart_noGuard(documentCookie, audience) ==
  LET t == getCSRFToken(documentCookie)
      read == [doc |-> documentCookie, got |-> t]
  IN IF t.type = "throw" THEN [read |-> read, step |-> "throw"]
     ELSE LET r == refreshRequest(audience,
                                  IF t.value = NULL THEN << >> ELSE t.value[1])
          IN IF r.type = "throw" THEN [read |-> read, step |-> "false"]
             ELSE [read |-> read, step |-> "fetch", req |-> r.value]

\* refreshSession up to its first suspension, reading the cookie now:
\*   [read: the cookie string read and the completion of getCSRFToken(),
\*    step: "throw" (the read threw, outside the try),
\*          "false" (no token, or the try block threw before the fetch),
\*          "fetch" (the refresh request `req` was issued)]
refreshSessionStart(documentCookie, audience) ==
  LET t == getCSRFToken(documentCookie)
      read == [doc |-> documentCookie, got |-> t]
  IN IF t.type = "throw" THEN [read |-> read, step |-> "throw"]
     ELSE IF ~Truthy(t.value) THEN [read |-> read, step |-> "false"]
     ELSE LET r == refreshRequest(audience, t.value[1])
          IN IF r.type = "throw" THEN [read |-> read, step |-> "false"]
             ELSE [read |-> read, step |-> "fetch", req |-> r.value]

\* mutant: any completed request counts as a successful refresh
refreshSessionResult_anyResponse(outcome) == outcome.kind = "response"

\* the boolean refreshSession returns once its fetch has settled
refreshSessionResult(outcome) ==
  IF outcome.kind = "reject" THEN FALSE ELSE ResponseOk(outcome.status)

(***************************************************************************)
(* logout helpers                                                          *)
(***************************************************************************)
\* mutant: the request is sent without credentials: "include"
logoutRequest_noCredentials(csrf) ==
  [input |-> LOGOUT_URL,
   init |-> [method |-> "POST",
             headers |-> [h \in {"X-CSRF-Token"} |-> csrf]]]

logoutRequest(csrf) ==
  [input |-> LOGOUT_URL,
   init |-> [method |-> "POST",
             headers |-> [h \in {"X-CSRF-Token"} |-> csrf],
             credentials |-> "include"]]

\* mutant: only a 401 is reported as unauthorized
logoutResult_only401(outcome) ==
  IF outcome.kind = "reject" THEN [ok |-> FALSE, reason |-> "request_failed"]
  ELSE IF ~ResponseOk(outcome.status)
       THEN [ok |-> FALSE,
             reason |-> IF outcome.status = 401
                        THEN "unauthorized" ELSE "request_failed"]
       ELSE [ok |-> TRUE]

\* the LogoutResult once the request has settled
logoutResult(outcome) ==
  IF outcome.kind = "reject" THEN [ok |-> FALSE, reason |-> "request_failed"]
  ELSE IF ~ResponseOk(outcome.status)
       THEN [ok |-> FALSE,
             reason |-> IF outcome.status = 401 \/ outcome.status = 403
                        THEN "unauthorized" ELSE "request_failed"]
       ELSE [ok |-> TRUE]

\* opts?.redirectTo
redirectOf(opts) == IF opts = NULL THEN NULL ELSE opts[1].redirectTo

\* mutant: if (opts?.redirectTo !== undefined)
shouldRedirect_defined(opts) == redirectOf(opts) # NULL

\* if (opts?.redirectTo): the navigation logout performs on success
shouldRedirect(opts) == Truthy(redirectOf(opts))

(***************************************************************************)
(* getCurrentUser: what it does with the settlement of its authFetch call  *)
(***************************************************************************)
\* the invocation once its promise has settled with completion r
Settled(call, r) == [call EXCEPT !.pc = "done", !.pending = {}, !.result = Just(r)]

\* mutant: authFetch is awaited outside the try block
getCurrentUserOnAuthFetch_noCatch(call, completion) ==
  IF completion.type = "throw" THEN Settled(call, completion)
  ELSE IF ~ResponseOk(completion.value.status) THEN Settled(call, Normal(NULL))
  ELSE [call EXCEPT !.pc = "await_json"]

getCurrentUserOnAuthFetch(call, completion) ==
  IF completion.type = "throw" THEN Settled(call, Normal(NULL))
  ELSE IF ~ResponseOk(completion.value.status) THEN Settled(call, Normal(NULL))
  ELSE [call EXCEPT !.pc = "await_json"]

getCurrentUserOnJson(call, j) ==
  IF j.kind = "reject" THEN Settled(call, Normal(NULL))
  ELSE Settled(call, Normal(Just(j.body)))

(***************************************************************************)
(* authFetch: the invocation at its start and after each of its requests   *)
(* has settled.  afResult is the settlement of the authFetch promise; for  *)
(* a direct call it is also the result of the invocation.                  *)
(***************************************************************************)
authFetchSettled(call, completion) ==
  LET done == [call EXCEPT !.afResult = Just(completion), !.pending = {}]
  IN IF call.op = "authFetch" THEN Settled(done, completion)
     ELSE getCurrentUserOnAuthFetch(done, completion)

\* the request just appended to the log is in flight; pc names the await
\* the invocation is suspended at, which is also the request's call site
Issue(call, req, pc) ==
  [call EXCEPT !.log = Append(@, req), !.sites = Append(@, pc),
               !.pending = {Len(call.log) + 1}, !.pc = pc]

\* the request the invocation awaits has settled with outcome
Received(call, outcome) == [call EXCEPT !.outcomes = Append(@, outcome)]

authFetchStart(op, args, input, init, opts) ==
  Issue([Idle EXCEPT !.op = op, !.args = args,
                     !.af = Just([input |-> input, init |-> init,
                                  audience |-> audienceOf(opts)])],
        appRequest(input, init), "await_initial")

\* mutant: the initial fetch is wrapped in a try/catch that throws a new error
authFetchOnInitial_wrapped(call, outcome, documentCookie) ==
  IF outcome.kind = "reject"
  THEN authFetchSettled(call, Throw([name |-> "Error", cause |-> TypeError(1)]))
  ELSE LET res == Response(1, outcome.status)
           got == [call EXCEPT !.res = Just(res), !.pending = {}]
       IN IF ~needsRefresh(outcome.status) THEN authFetchSettled(got, Normal(res))
          ELSE LET rs == refreshSessionStart(documentCookie, call.af[1].audience)
                   rd == [got EXCEPT !.reads = Append(@, rs.read)]
               IN IF rs.step = "throw" THEN authFetchSettled(rd, rs.read.got)
                  ELSE IF rs.step = "false"
                       THEN authFetchSettled([rd EXCEPT !.refreshed = Just(FALSE)],
                                             Normal(res))
                       ELSE Issue(rd, rs.req, "await_refresh")

\* mutant: a 401 is retried at once, without waiting for a refresh
authFetchOnInitial_retriesAtOnce(call, outcome, documentCookie) ==
  IF outcome.kind = "reject" THEN authFetchSettled(call, Throw(TypeError(1)))
  ELSE LET res == Response(1, outcome.status)
           got == [call EXCEPT !.res = Just(res), !.pending = {}]
       IN IF ~needsRefresh(outcome.status) THEN authFetchSettled(got, Normal(res))
          ELSE Issue(got, appRequest(call.af[1].input, call.af[1].init),
                     "await_retry")

\* const res = await fetch(...); the 401 test; the call of refreshSession
authFetchOnInitial(call, outcome, documentCookie) ==
  IF outcome.kind = "reject" THEN authFetchSettled(call, Throw(TypeError(1)))
  ELSE LET res == Response(1, outcome.status)
           got == [call EXCEPT !.res = Just(res), !.pending = {}]
       IN IF ~needsRefresh(outcome.status) THEN authFetchSettled(got, Normal(res))
          ELSE LET rs == refreshSessionStart(documentCookie, call.af[1].audience)
                   rd == [got EXCEPT !.reads = Append(@, rs.read)]
               IN IF rs.step = "throw" THEN authFetchSettled(rd, rs.read.got)
                  ELSE IF rs.step = "false"
                       THEN authFetchSettled([rd EXCEPT !.refreshed = Just(FALSE)],
                                             Normal(res))
                       ELSE Issue(rd, rs.req, "await_refresh")

\* mutant: the test of `refreshed` is inverted, so a successful refresh
\* returns the stale response and a failed one retries
authFetchOnRefresh_inverted(call, outcome) ==
  LET refreshed == refreshSessionResult(outcome)
      got == [call EXCEPT !.refreshed = Just(refreshed), !.pending = {}]
  IN IF refreshed THEN authFetchSettled(got, Normal(call.res[1]))
     ELSE Issue(got, appRequest(call.af[1].input, call.af[1].init), "await_retry")

\* mutant: after a failed refresh the refresh attempt's response is returned
authFetchOnRefresh_refreshResponse(call, outcome) ==
  LET refreshed == refreshSessionResult(outcome)
      got == [call EXCEPT !.refreshed = Just(refreshed), !.pending = {}]
  IN IF ~refreshed
     THEN authFetchSettled(got,
            IF outcome.kind = "reject" THEN Normal(call.res[1])
            ELSE Normal(Response(Len(call.log), outcome.status)))
     ELSE Issue(got, appRequest(call.af[1].input, call.af[1].init), "await_retry")

\* const refreshed = await refreshSession(audience); the retry
authFetchOnRefresh(call, outcome) ==
  LET refreshed == refreshSessionResult(outcome)
      got == [call EXCEPT !.refreshed = Just(refreshed), !.pending = {}]
  IN IF ~refreshed THEN authFetchSettled(got, Normal(call.res[1]))
     ELSE Issue(got, appRequest(call.af[1].input, call.af[1].init), "await_retry")

\* mutant: the retry is a recursive authFetch, so a 401 on the retry starts
\* another refresh
authFetchOnRetry_recursive(call, outcome) ==
  IF outcome.kind = "reject"
  THEN authFetchSettled(call, Throw(TypeError(Len(call.log))))
  ELSE IF needsRefresh(outcome.status)
       THEN Issue([call EXCEPT !.pending = {}], call.log[2], "await_refresh")
       ELSE authFetchSettled(call, Normal(Response(Len(call.log), outcome.status)))

\* mutant: a loop, a retry answered 401 goes back to refreshing
authFetchOnRetry_refreshesAgain(call, outcome) ==
  IF outcome.kind = "reject"
  THEN authFetchSettled(call, Throw(TypeError(Len(call.log))))
  ELSE IF needsRefresh(outcome.status)
       THEN [call EXCEPT !.log = SubSeq(@, 1, 2), !.sites = SubSeq(@, 1, 2),
                         !.outcomes = SubSeq(@, 1, 1), !.pending = {2},
                         !.refreshed = NULL, !.pc = "await_refresh"]
       ELSE authFetchSettled(call, Normal(Response(Len(call.log), outcome.status)))

\* return fetch(input, withCredentials(init))
authFetchOnRetry(call, outcome) ==
  IF outcome.kind = "reject"
  THEN authFetchSettled(call, Throw(TypeError(Len(call.log))))
  ELSE authFetchSettled(call, Normal(Response(Len(call.log), outcome.status)))

(***************************************************************************)
(* refreshSession and logout called directly                               *)
(***************************************************************************)
\* getCSRFToken() called by the application: synchronous, it returns or throws
getCSRFTokenCall(documentCookie) ==
  LET t == getCSRFToken(documentCookie)
  IN Settled([Idle EXCEPT !.op = "getCSRFToken",
                          !.reads = << [doc |-> documentCookie, got |-> t] >>], t)

refreshSessionCall(arg, documentCookie) ==
  LET rs == refreshSessionStart(documentCookie, audienceParam(arg))
      rd == [Idle EXCEPT !.op = "refreshSession", !.args = Just([audience |-> arg]),
                         !.reads = << rs.read >>]
  IN IF rs.step = "throw" THEN Settled(rd, rs.read.got)
     ELSE IF rs.step = "false"
          THEN Settled([rd EXCEPT !.refreshed = Just(FALSE)], Normal(FALSE))
          ELSE Issue(rd, rs.req, "await_refresh")

refreshSessionOnFetch(call, outcome) ==
  LET refreshed == refreshSessionResult(outcome)
  IN Settled([call EXCEPT !.refreshed = Just(refreshed)], Normal(refreshed))

\* mutant: no guard on the token, the header carries csrf ?? ""
logoutCall_noGuard(opts, documentCookie) ==
  LET t == getCSRFToken(documentCookie)
      rd == [Idle EXCEPT !.op = "logout", !.args = Just([opts |-> opts]),
                         !.reads = << [doc |-> documentCookie, got |-> t] >>]
  IN IF t.type = "throw" THEN Settled(rd, t)
     ELSE Issue(rd, logoutRequest(IF t.value = NULL THEN << >> ELSE t.value[1]),
                "await_logout")

logoutCall(opts, documentCookie) ==
  LET t == getCSRFToken(documentCookie)
      rd == [Idle EXCEPT !.op = "logout", !.args = Just([opts |-> opts]),
                         !.reads = << [doc |-> documentCookie, got |-> t] >>]
  IN IF t.type = "throw" THEN Settled(rd, t)
     ELSE IF ~Truthy(t.value)
          THEN Settled(rd, Normal([ok |-> FALSE, reason |-> "missing_csrf"]))
          ELSE Issue(rd, logoutRequest(t.value[1]), "await_logout")

\* the navigation logout performs once its request has settled: none, or
\* the assignment to window.location.href
logoutNavigation(opts, outcome) ==
  IF logoutResult(outcome).ok /\ shouldRedirect(opts)
  THEN Just(redirectOf(opts)[1]) ELSE NULL

logoutOnFetch(call, outcome) ==
  Settled([call EXCEPT !.nav = logoutNavigation(call.args[1].opts, outcome)],
          Normal(logoutResult(outcome)))

(***************************************************************************)
(* Actions.  A caller starts an operation when it runs none (or its last   *)
(* one has settled); a suspended invocation resumes when the request it    *)
(* awaits settles; the environment replaces the cookie string at any time. *)
(***************************************************************************)
CanStart(c) == calls[c].pc \in {"idle", "done"}

Set(c, call) == calls' = [calls EXCEPT ![c] = call]

authFetch(c, input, init, opts) ==
  /\ CanStart(c)
  /\ Set(c, authFetchStart("authFetch",
                           Just([input |-> input, init |-> init, opts |-> opts]),
                           input, init, opts))
  /\ UNCHANGED <<cookie, href>>

\* mutant: single flight, a 401 that arrives while another call is refreshing
\* does not start a refresh of its own
InitialSettles_singleFlight(c, outcome) ==
  /\ calls[c].pc = "await_initial"
  /\ Set(c, IF \E d \in DOMAIN calls : d # c /\ calls[d].pc = "await_refresh"
            THEN authFetchOnInitial_retriesAtOnce(Received(calls[c], outcome),
                                                  outcome, cookie)
            ELSE authFetchOnInitial(Received(calls[c], outcome), outcome, cookie))
  /\ UNCHANGED <<cookie, href>>

InitialSettles(c, outcome) ==
  /\ calls[c].pc = "await_initial"
  /\ Set(c, authFetchOnInitial(Received(calls[c], outcome), outcome, cookie))
  /\ UNCHANGED <<cookie, href>>

RefreshSettles(c, outcome) ==
  /\ calls[c].pc = "await_refresh"
  /\ Set(c, IF calls[c].op = "refreshSession"
            THEN refreshSessionOnFetch(Received(calls[c], outcome), outcome)
            ELSE authFetchOnRefresh(Received(calls[c], outcome), outcome))
  /\ UNCHANGED <<cookie, href>>

RetrySettles(c, outcome) ==
  /\ calls[c].pc = "await_retry"
  /\ Set(c, authFetchOnRetry(Received(calls[c], outcome), outcome))
  /\ UNCHANGED <<cookie, href>>

refreshSession(c, arg) ==
  /\ CanStart(c)
  /\ Set(c, refreshSessionCall(arg, cookie))
  /\ UNCHANGED <<cookie, href>>

logout(c, opts) ==
  /\ CanStart(c)
  /\ Set(c, logoutCall(opts, cookie))
  /\ UNCHANGED <<cookie, href>>

\* mutant: a successful logout clears document.cookie
LogoutSettles_clearsCookie(c, outcome) ==
  /\ calls[c].pc = "await_logout"
  /\ Set(c, logoutOnFetch(Received(calls[c], outcome), outcome))
  /\ href' = LET n == logoutNavigation(calls[c].args[1].opts, outcome)
             IN IF n = NULL THEN href ELSE n[1]
  /\ cookie' = IF logoutResult(outcome).ok THEN << >> ELSE cookie

LogoutSettles(c, outcome) ==
  /\ calls[c].pc = "await_logout"
  /\ Set(c, logoutOnFetch(Received(calls[c], outcome), outcome))
  /\ href' = LET n == logoutNavigation(calls[c].args[1].opts, outcome)
             IN IF n = NULL THEN href ELSE n[1]
  /\ UNCHANGED cookie

getCurrentUser(c, opts) ==
  /\ CanStart(c)
  /\ Set(c, authFetchStart("getCurrentUser", Just([opts |-> opts]),
                           USER_URL, [method |-> "GET"],
                           Just([audience |-> Just(audienceOf(opts))])))
  /\ UNCHANGED <<cookie, href>>

JsonSettles(c, j) ==
  /\ calls[c].pc = "await_json"
  /\ Set(c, getCurrentUserOnJson([calls[c] EXCEPT !.json = Just(j)], j))
  /\ UNCHANGED <<cookie, href>>

CallGetCSRFToken(c) ==
  /\ CanStart(c)
  /\ Set(c, getCSRFTokenCall(cookie))
  /\ UNCHANGED <<cookie, href>>

\* the browser or an auth-service response replaces the cookie string
SetCookie(v) ==
  /\ v # cookie
  /\ cookie' = v
  /\ UNCHANGED <<href, calls>>

(***************************************************************************)
(* One caller running operations one after the other.                      *)
(***************************************************************************)
Init ==
  /\ cookie \in CookieStrings
  /\ href = INITIAL_HREF
  /\ calls = [c \in {1} |-> Idle]

Next ==
  \/ \E c \in DOMAIN calls, a \in AppCalls, opts \in AudienceOpts :
       authFetch(c, a.input, a.init, opts)
  \/ \E c \in DOMAIN calls, outcome \in Outcomes : InitialSettles(c, outcome)
  \/ \E c \in DOMAIN calls, outcome \in Outcomes : RefreshSettles(c, outcome)
  \/ \E c \in DOMAIN calls, outcome \in Outcomes : RetrySettles(c, outcome)
  \/ \E c \in DOMAIN calls, arg \in AudienceArgs : refreshSession(c, arg)
  \/ \E c \in DOMAIN calls, opts \in LogoutOpts : logout(c, opts)
  \/ \E c \in DOMAIN calls, outcome \in Outcomes : LogoutSettles(c, outcome)
  \/ \E c \in DOMAIN calls, opts \in AudienceOpts : getCurrentUser(c, opts)
  \/ \E c \in DOMAIN calls, j \in JsonOutcomes : JsonSettles(c, j)
  \/ \E c \in DOMAIN calls : CallGetCSRFToken(c)
  \/ \E v \in CookieStrings : SetCookie(v)

Spec == Init /\ [][Next]_vars

(***************************************************************************)
(* The cookie read on its own: document.cookie is drawn from a jar of      *)
(* cookie strings and the application calls getCSRFToken().                *)
(***************************************************************************)
\* longest raw value of an entry of the jar
MaxRawLen == 2

\* longest token that is stored URL-encoded
MaxTokenLen == 2

\* a, '=', '%': raw values with separators and broken escapes
RawValueChars == {97, 61, 37}

\* a, ';', '=', ' ', '%', e-acute
TokenChars == {97, 59, 61, 32, 37, 233}

Tokens == BoundedSeq(TokenChars, MaxTokenLen)

\* "authgate_csrf=<URL-encoding of t>"
EncodedEntry(t) == CSRF_COOKIE \o EQ \o encodeURIComponent(t).value

CsrfEntries == {CSRF_COOKIE \o EQ \o v : v \in BoundedSeq(RawValueChars, MaxRawLen)}

\* "authgate_csrfx=b", "xauthgate_csrf=b", "theme=a", "authgate_csrf"
DecoyEntries ==
  {CSRF_COOKIE \o <<120, 61, 98>>, <<120>> \o CSRF_COOKIE \o <<61, 98>>,
   OTHER_COOKIE, CSRF_COOKIE}

CookieJar ==
  {<< >>} \cup CsrfEntries \cup DecoyEntries
    \cup {d \o COOKIE_SEP \o e : d \in DecoyEntries, e \in CsrfEntries}
    \cup {e \o COOKIE_SEP \o d : e \in {CSRF_COOKIE \o <<61, 97>>}, d \in CsrfEntries}
    \cup {EncodedEntry(t) : t \in Tokens}
    \cup {OTHER_COOKIE \o COOKIE_SEP \o EncodedEntry(t) : t \in Tokens}

InitCookie ==
  /\ cookie \in CookieJar
  /\ href = INITIAL_HREF
  /\ calls = [c \in {1} |-> Idle]

NextCookie == \E c \in DOMAIN calls : CallGetCSRFToken(c)

SpecCookie == InitCookie /\ [][NextCookie]_vars

(***************************************************************************)
(* Several authFetch calls in flight at once: each caller runs its own     *)
(* invocation, the continuations interleave in any order.                  *)
(***************************************************************************)
\* number of concurrent callers
MaxCallers == 2

Callers == 1..MaxCallers

\* no cookie, "authgate_csrf=a" and "authgate_csrf=b"
ConcurrentCookies == {<< >>, CSRF_COOKIE \o EQ \o <<97>>, CSRF_COOKIE \o EQ \o <<98>>}

ConcurrentOutcomes ==
  {[kind |-> "response", status |-> s] : s \in {200, 401}} \cup {[kind |-> "reject"]}

InitConcurrent ==
  /\ cookie \in ConcurrentCookies
  /\ href = INITIAL_HREF
  /\ calls = [c \in Callers |-> Idle]

NextConcurrent ==
  \/ \E c \in DOMAIN calls : authFetch(c, API_DATA, << >>, NULL)
  \/ \E c \in DOMAIN calls, outcome \in ConcurrentOutcomes : InitialSettles(c, outcome)
  \/ \E c \in DOMAIN calls, outcome \in ConcurrentOutcomes : RefreshSettles(c, outcome)
  \/ \E c \in DOMAIN calls, outcome \in ConcurrentOutcomes : RetrySettles(c, outcome)
  \/ \E v \in ConcurrentCookies : SetCookie(v)

SpecConcurrent == InitConcurrent /\ [][NextConcurrent]_vars

(***************************************************************************)
(* The same callers over a network that settles every request: a fetch in  *)
(* flight is eventually resolved or rejected.                              *)
(***************************************************************************)
\* the request call c is awaiting settles
RequestSettles(c) ==
  \E outcome \in ConcurrentOutcomes :
    \/ InitialSettles(c, outcome)
    \/ RefreshSettles(c, outcome)
    \/ RetrySettles(c, outcome)

SpecLive == SpecConcurrent /\ \A c \in Callers : WF_vars(RequestSettles(c))

(***************************************************************************)
(* Properties.                                                             *)
(***************************************************************************)
Count(seq, x) == Cardinality({k \in DOMAIN seq : seq[k] = x})

\* the settlement of request k of an invocation, as its awaiter sees it
SettlementOf(call, k) ==
  IF call.outcomes[k].kind = "reject" THEN Throw(TypeError(k))
  ELSE Normal(Response(k, call.outcomes[k].status))

\* the cookie string holds no entry named authgate_csrf
NoCsrfCookie(doc) ==
  \A i \in DOMAIN Split(doc, COOKIE_SEP) :
    ~startsWith(Split(doc, COOKIE_SEP)[i], CSRF_COOKIE \o EQ)

\* C1: an authFetch invocation issues its original request once, makes at
\* most one refresh attempt (one cookie read, one refresh request) and at
\* most one retry: at most three requests in all, at every moment and for
\* every sequence of outcomes and cookie states.
C1_AtMostOneRefreshOneRetry ==
  \A c \in DOMAIN calls :
    LET call == calls[c] IN
    call.af # NULL =>
      /\ Len(call.sites) = Len(call.log)
      /\ Count(call.sites, "await_initial") = 1
      /\ Count(call.sites, "await_refresh") <= 1
      /\ Count(call.sites, "await_retry") <= 1
      /\ Len(call.reads) <= 1
      /\ Len(call.log) <= 3

\* three requests were issued and the retry also came back 401
C1_Witness ==
  \E c \in DOMAIN calls :
    /\ calls[c].op = "authFetch"
    /\ calls[c].pc = "done"
    /\ Len(calls[c].log) = 3
    /\ calls[c].outcomes[3] = [kind |-> "response", status |-> 401]

\* C2: once refreshSession has returned true after a 401, the requests of the
\* invocation are exactly original, refresh, retry in that order, the retry
\* repeats the original request, and the invocation settles with the retry's
\* settlement whatever its status (a 401 included), with nothing after it.
C2_RetryOnceAndReturnIt ==
  \A c \in DOMAIN calls :
    LET call == calls[c] IN
    (call.af # NULL /\ call.refreshed = Just(TRUE)) =>
      /\ call.res = Just(Response(1, 401))
      /\ call.sites = <<"await_initial", "await_refresh", "await_retry">>
      /\ Len(call.log) = 3
      /\ call.log[1].input = call.af[1].input
      /\ call.log[3] = call.log[1]
      /\ Len(call.reads) = 1
      /\ Len(call.outcomes) \in {2, 3}
      /\ Len(call.outcomes) = 2 =>
           call.pc = "await_retry" /\ call.pending = {3} /\ call.afResult = NULL
      /\ Len(call.outcomes) = 3 =>
           /\ call.pending = {}
           /\ call.afResult = Just(SettlementOf(call, 3))
           /\ call.op = "authFetch" =>
                call.pc = "done" /\ call.result = call.afResult

\* refresh succeeded and the retry's 401 is what authFetch returned
C2_Witness ==
  \E c \in DOMAIN calls :
    /\ calls[c].op = "authFetch"
    /\ calls[c].refreshed = Just(TRUE)
    /\ calls[c].outcomes[1] = [kind |-> "response", status |-> 401]
    /\ calls[c].result = Just(Normal(Response(3, 401)))

\* C3, as claimed: when refreshSession returns false after a 401, exactly two
\* requests were made (original, refresh), no retry, and the original 401 is
\* returned.
C3_Original ==
  \A c \in DOMAIN calls :
    LET call == calls[c] IN
    (call.af # NULL /\ call.refreshed = Just(FALSE)) =>
      /\ call.sites = <<"await_initial", "await_refresh">>
      /\ call.afResult = Just(Normal(Response(1, 401)))

\* refreshSession sent its request: it read a non-empty token and could
\* encode the audience
RefreshWasSent(call) ==
  /\ call.reads[1].got.type = "normal"
  /\ Truthy(call.reads[1].got.value)
  /\ encodeURIComponent(call.af[1].audience).type = "normal"

\* C3, amended: when refreshSession returns false after a 401, no retry is
\* made and the original 401 response itself is returned; the requests made
\* are original and refresh when refreshSession sent its request, and the
\* original alone when it returned false without sending one.
C3_NoRetryOriginal401 ==
  \A c \in DOMAIN calls :
    LET call == calls[c] IN
    (call.af # NULL /\ call.refreshed = Just(FALSE)) =>
      /\ call.res = Just(Response(1, 401))
      /\ call.outcomes[1] = [kind |-> "response", status |-> 401]
      /\ call.afResult = Just(Normal(call.res[1]))
      /\ call.op = "authFetch" => call.pc = "done" /\ call.result = call.afResult
      /\ call.pending = {}
      /\ Len(call.reads) = 1
      /\ call.sites = IF RefreshWasSent(call)
                      THEN <<"await_initial", "await_refresh">>
                      ELSE <<"await_initial">>

\* the refresh request was sent and answered 401 as well; the response
\* returned is the one of request 1
C3_Witness ==
  \E c \in DOMAIN calls :
    /\ calls[c].op = "authFetch"
    /\ calls[c].refreshed = Just(FALSE)
    /\ Len(calls[c].log) = 2
    /\ calls[c].outcomes[2] = [kind |-> "response", status |-> 401]
    /\ calls[c].result = Just(Normal(Response(1, 401)))

\* C4: when the first response has any status other than 401, the invocation
\* has made one request, has not read the cookie, has not called
\* refreshSession, and returns that response.
C4_Non401PassThrough ==
  \A c \in DOMAIN calls :
    LET call == calls[c] IN
    (/\ call.af # NULL
     /\ Len(call.outcomes) >= 1
     /\ call.outcomes[1].kind = "response"
     /\ call.outcomes[1].status # 401) =>
      /\ Len(call.log) = 1
      /\ call.reads = << >>
      /\ call.refreshed = NULL
      /\ call.res = Just(Response(1, call.outcomes[1].status))
      /\ call.afResult = Just(Normal(call.res[1]))
      /\ call.op = "authFetch" => call.pc = "done" /\ call.result = call.afResult

\* a 403 passed through
C4_Witness ==
  \E c \in DOMAIN calls :
    /\ calls[c].op = "authFetch"
    /\ calls[c].outcomes = << [kind |-> "response", status |-> 403] >>
    /\ calls[c].result = Just(Normal(Response(1, 403)))

\* the audience the caller asked for: opts.audience, or "app"
RequestedAudience(opts) ==
  IF opts = NULL THEN DEFAULT_AUDIENCE
  ELSE IF opts[1].audience = NULL THEN DEFAULT_AUDIENCE
  ELSE opts[1].audience[1]

\* C5: every refresh request of an authFetch invocation is a POST to
\* /auth/refresh?audience=<the url-encoded audience passed>, audience "app"
\* when none was passed.
C5_RefreshTargetsAudience ==
  \A c \in DOMAIN calls :
    LET call == calls[c] IN
    call.af # NULL =>
      \A k \in DOMAIN call.sites :
        call.sites[k] = "await_refresh" =>
          LET enc == encodeURIComponent(RequestedAudience(call.args[1].opts)) IN
          /\ enc.type = "normal"
          /\ call.log[k].input = REFRESH_URL_PREFIX \o enc.value
          /\ call.log[k].init.method = "POST"

\* audience "a b": the refresh went to /auth/refresh?audience=a%20b
C5_Witness ==
  \E c \in DOMAIN calls :
    /\ calls[c].op = "authFetch"
    /\ calls[c].args[1].opts = Just([audience |-> Just(<<97, 32, 98>>)])
    /\ Len(calls[c].log) >= 2
    /\ calls[c].log[2].input = REFRESH_URL_PREFIX \o <<97, 37, 50, 48, 98>>

\* C6, as claimed: after a 401, whenever the refresh did not succeed (cookie
\* absent, empty or malformed, refresh rejected or not successful), authFetch
\* settles by returning the original 401 response.
C6_AbsorbsCsrfAndRefreshFailures ==
  \A c \in DOMAIN calls :
    LET call == calls[c] IN
    (/\ call.af # NULL
     /\ call.res = Just(Response(1, 401))
     /\ call.pending = {}
     /\ call.refreshed # Just(TRUE)) =>
      call.afResult = Just(Normal(call.res[1]))

\* C7: a rejection of the initial fetch or of the retried fetch is the
\* rejection of authFetch, the same error; after a rejected initial fetch
\* the cookie is not read and no further request is issued.
C7_TransportErrorsPropagate ==
  \A c \in DOMAIN calls :
    LET call == calls[c] IN
    call.af # NULL =>
      /\ (Len(call.outcomes) >= 1 /\ call.outcomes[1].kind = "reject") =>
           /\ call.afResult = Just(Throw(TypeError(1)))
           /\ Len(call.log) = 1
           /\ call.reads = << >>
           /\ call.refreshed = NULL
           /\ call.op = "authFetch" =>
                call.pc = "done" /\ call.result = call.afResult
      /\ (Len(call.outcomes) = 3 /\ call.outcomes[3].kind = "reject") =>
           /\ call.sites[3] = "await_retry"
           /\ call.afResult = Just(Throw(TypeError(3)))
           /\ call.op = "authFetch" =>
                call.pc = "done" /\ call.result = call.afResult

\* the retry was rejected and authFetch threw that rejection
C7_Witness ==
  \E c \in DOMAIN calls :
    /\ calls[c].op = "authFetch"
    /\ Len(calls[c].outcomes) = 3
    /\ calls[c].outcomes[3].kind = "reject"
    /\ calls[c].result = Just(Throw(TypeError(3)))

\* C8: a logout called while the cookie string holds no authgate_csrf entry
\* returns missing_csrf, having issued no request and navigated nowhere,
\* whatever its options.
C8_MissingCsrfNoNetwork ==
  \A c \in DOMAIN calls :
    LET call == calls[c] IN
    (call.op = "logout" /\ NoCsrfCookie(call.reads[1].doc)) =>
      /\ call.pc = "done"
      /\ call.result = Just(Normal([ok |-> FALSE, reason |-> "missing_csrf"]))
      /\ call.log = << >>
      /\ call.pending = {}
      /\ call.nav = NULL

\* logout({redirectTo: "/after"}) with no CSRF cookie
C8_Witness ==
  \E c \in DOMAIN calls :
    /\ calls[c].op = "logout"
    /\ calls[c].reads[1].doc = OTHER_COOKIE
    /\ calls[c].args[1].opts = Just([redirectTo |-> Just(<<47, 97, 102, 116, 101, 114>>)])
    /\ calls[c].result = Just(Normal([ok |-> FALSE, reason |-> "missing_csrf"]))

\* the LogoutResult the specification assigns to the outcome of the request
ExpectedLogoutResult(o) ==
  IF o.kind = "response" /\ o.status \in 200..299 THEN [ok |-> TRUE]
  ELSE IF o.kind = "response" /\ o.status \in {401, 403}
       THEN [ok |-> FALSE, reason |-> "unauthorized"]
       ELSE [ok |-> FALSE, reason |-> "request_failed"]

\* logout read a non-empty token
LogoutReadToken(call) ==
  /\ call.op = "logout"
  /\ call.reads[1].got.type = "normal"
  /\ Truthy(call.reads[1].got.value)

\* C9: a logout that read a token issues one request and its result is
\* decided by that request's outcome alone: ok for a 2xx, unauthorized for
\* 401 and 403, request_failed for a rejection and any other status.
C9_LogoutResultByOutcome ==
  \A c \in DOMAIN calls :
    LET call == calls[c] IN
    LogoutReadToken(call) =>
      /\ Len(call.log) = 1
      /\ call.pc \in {"await_logout", "done"}
      /\ call.pc = "await_logout" => call.result = NULL /\ call.outcomes = << >>
      /\ call.pc = "done" =>
           /\ Len(call.outcomes) = 1
           /\ call.result = Just(Normal(ExpectedLogoutResult(call.outcomes[1])))

\* a 403 reported as unauthorized
C9_Witness ==
  \E c \in DOMAIN calls :
    /\ LogoutReadToken(calls[c])
    /\ calls[c].outcomes = << [kind |-> "response", status |-> 403] >>
    /\ calls[c].result = Just(Normal([ok |-> FALSE, reason |-> "unauthorized"]))

\* the redirectTo the caller supplied, or NULL
SuppliedRedirect(call) ==
  IF call.args[1].opts = NULL THEN NULL ELSE call.args[1].opts[1].redirectTo

\* C10, as claimed: a settled logout has navigated if and only if it
\* returned ok and a redirectTo was supplied, and then to exactly redirectTo.
C10_Original ==
  \A c \in DOMAIN calls :
    LET call == calls[c] IN
    (call.op = "logout" /\ call.pc = "done" /\ call.result[1].type = "normal") =>
      /\ call.nav # NULL <=>
           (call.result[1].value.ok /\ SuppliedRedirect(call) # NULL)
      /\ call.nav # NULL => call.nav = SuppliedRedirect(call)

\* what a logout invocation returns, by its cookie read and request outcome
ExpectedLogoutSettlement(call) ==
  IF call.reads[1].got.type = "throw" THEN call.reads[1].got
  ELSE IF ~Truthy(call.reads[1].got.value)
       THEN Normal([ok |-> FALSE, reason |-> "missing_csrf"])
       ELSE Normal(ExpectedLogoutResult(call.outcomes[1]))

C10_NavigationState ==
  \A c \in DOMAIN calls :
    LET call == calls[c] IN
    (call.op = "logout" /\ call.pc = "done") =>
      /\ call.nav # NULL <=>
           /\ call.result = Just(Normal([ok |-> TRUE]))
           /\ SuppliedRedirect(call) # NULL
           /\ SuppliedRedirect(call)[1] # << >>
      /\ call.nav # NULL => call.nav = SuppliedRedirect(call) /\ href = call.nav[1]
      /\ call.result = Just(ExpectedLogoutSettlement(call))

C10_NavigationStep ==
  href' # href =>
    \E c \in DOMAIN calls :
      /\ calls[c].op = "logout"
      /\ calls[c].pc = "await_logout"
      /\ calls'[c].pc = "done"
      /\ calls'[c].result = Just(Normal([ok |-> TRUE]))
      /\ SuppliedRedirect(calls[c]) = Just(href')

\* C10, amended: logout changes the navigation target if and only if it
\* returns ok and a non-empty redirectTo was supplied, and then to exactly
\* redirectTo; on every failure nothing navigates; what logout returns is
\* decided by its cookie read and its request's outcome, not by redirectTo.
C10_RedirectOnlyOnSuccess ==
  [](C10_NavigationState) /\ [][C10_NavigationStep]_vars

\* logout({redirectTo: "/after"}) succeeded and the target is "/after"
C10_Witness ==
  \E c \in DOMAIN calls :
    /\ calls[c].op = "logout"
    /\ calls[c].pc = "done"
    /\ calls[c].args[1].opts = Just([redirectTo |-> Just(<<47, 97, 102, 116, 101, 114>>)])
    /\ calls[c].result = Just(Normal([ok |-> TRUE]))
    /\ href = <<47, 97, 102, 116, 101, 114>>

\* C11: a logout that read the token t issues exactly one request, at every
\* moment and whatever the outcome: POST /auth/logout with the header
\* X-CSRF-Token: t and credentials included.
C11_LogoutSingleRequest ==
  \A c \in DOMAIN calls :
    LET call == calls[c] IN
    LogoutReadToken(call) =>
      /\ call.sites = <<"await_logout">>
      /\ call.log = << [input |-> LOGOUT_URL,
                        init |-> [method |-> "POST",
                                  headers |-> [h \in {"X-CSRF-Token"} |->
                                                 call.reads[1].got.value[1]],
                                  credentials |-> "include"]] >>
      /\ call.pending = IF call.pc = "done" THEN {} ELSE {1}
      /\ Len(call.outcomes) <= 1

\* cookie "theme=a; authgate_csrf=a%20b": the one request carried the header
\* "a b" and was answered 500
C11_Witness ==
  \E c \in DOMAIN calls :
    /\ calls[c].op = "logout"
    /\ calls[c].pc = "done"
    /\ Len(calls[c].log) = 1
    /\ calls[c].log[1].input = LOGOUT_URL
    /\ calls[c].log[1].init.headers["X-CSRF-Token"] = <<97, 32, 98>>
    /\ calls[c].outcomes = << [kind |-> "response", status |-> 500] >>

\* the invocation read a non-empty CSRF token in refreshSession
RefreshReadToken(call) ==
  /\ Len(call.reads) = 1
  /\ call.reads[1].got.type = "normal"
  /\ Truthy(call.reads[1].got.value)

\* the refresh request of the invocation completed with a success status
RefreshCompletedOk(call) ==
  \E k \in DOMAIN call.outcomes :
    /\ call.sites[k] = "await_refresh"
    /\ call.outcomes[k].kind = "response"
    /\ call.outcomes[k].status \in 200..299

\* C12: the boolean refreshSession returns (called directly or by authFetch)
\* is true exactly when a CSRF token was read, the refresh request completed
\* and its status is a success; it is false for a missing token, a rejected
\* request and every other status.
C12_RefreshTrueIffOk ==
  \A c \in DOMAIN calls :
    LET call == calls[c] IN
    /\ call.refreshed # NULL =>
         call.refreshed[1] = (RefreshReadToken(call) /\ RefreshCompletedOk(call))
    /\ (call.op = "refreshSession" /\ call.pc = "done"
          /\ call.result[1].type = "normal") =>
         /\ call.refreshed # NULL
         /\ call.result = Just(Normal(call.refreshed[1]))

\* refreshSession() returned true after a 204
C12_Witness ==
  \E c \in DOMAIN calls :
    /\ calls[c].op = "refreshSession"
    /\ calls[c].outcomes = << [kind |-> "response", status |-> 204] >>
    /\ calls[c].result = Just(Normal(TRUE))

\* the `audience` argument of a direct refreshSession call, or "app"
RequestedAudienceArg(call) ==
  IF call.args[1].audience = NULL THEN DEFAULT_AUDIENCE
  ELSE call.args[1].audience[1]

\* the request the specification describes for token t and the audience
ExpectedRefreshRequest(call) ==
  [input |-> REFRESH_URL_PREFIX \o encodeURIComponent(RequestedAudienceArg(call)).value,
   init |-> [method |-> "POST",
             headers |-> [h \in {"X-CSRF-Token"} |-> call.reads[1].got.value[1]],
             credentials |-> "include"]]

\* without a token: false, no request, no navigation
RefreshWithoutToken(call) ==
  (call.reads[1].got.type = "normal" /\ ~Truthy(call.reads[1].got.value)) =>
    /\ call.pc = "done"
    /\ call.result = Just(Normal(FALSE))
    /\ call.log = << >>
    /\ call.nav = NULL

\* C13, as claimed: refreshSession without a token returns false with no
\* request; with a token t it issues exactly one request, POST
\* /auth/refresh?audience=<encoded audience> with X-CSRF-Token: t and
\* credentials included.
C13_Original ==
  \A c \in DOMAIN calls :
    LET call == calls[c] IN
    call.op = "refreshSession" =>
      /\ RefreshWithoutToken(call)
      /\ RefreshReadToken(call) =>
           /\ Len(call.log) = 1
           /\ call.log[1] = ExpectedRefreshRequest(call)

\* C13, amended: refreshSession without a token returns false with no
\* request; with a token t and an audience that can be URL-encoded it issues
\* exactly one request, POST /auth/refresh?audience=<encoded audience> with
\* X-CSRF-Token: t and credentials included; with an audience that cannot be
\* encoded it returns false with no request; it never retries or navigates.
C13_RefreshSingleRequest ==
  \A c \in DOMAIN calls :
    LET call == calls[c] IN
    call.op = "refreshSession" =>
      /\ RefreshWithoutToken(call)
      /\ call.nav = NULL
      /\ Len(call.log) <= 1
      /\ RefreshReadToken(call) =>
           IF encodeURIComponent(RequestedAudienceArg(call)).type = "normal"
           THEN /\ call.sites = <<"await_refresh">>
                /\ call.log = << ExpectedRefreshRequest(call) >>
                /\ call.pending = IF call.pc = "done" THEN {} ELSE {1}
           ELSE /\ call.pc = "done"
                /\ call.log = << >>
                /\ call.result = Just(Normal(FALSE))

\* refreshSession("a b") with cookie "theme=a; authgate_csrf=a%20b": one
\* request to /auth/refresh?audience=a%20b carrying the header "a b"
C13_Witness ==
  \E c \in DOMAIN calls :
    /\ calls[c].op = "refreshSession"
    /\ calls[c].pc = "done"
    /\ Len(calls[c].log) = 1
    /\ calls[c].log[1].input = REFRESH_URL_PREFIX \o <<97, 37, 50, 48, 98>>
    /\ calls[c].log[1].init.headers["X-CSRF-Token"] = <<97, 32, 98>>
    /\ calls[c].log[1].init.credentials = "include"

\* C14, as claimed: logout and refreshSession always settle by returning
\* their typed outcome, for every cookie string and every fetch outcome.
C14_NeverThrow ==
  \A c \in DOMAIN calls :
    (calls[c].op \in {"logout", "refreshSession"} /\ calls[c].pc = "done") =>
      calls[c].result[1].type = "normal"

\* the final response of the authFetch call inside getCurrentUser is a success
UserResponseOk(call) ==
  /\ call.afResult # NULL
  /\ call.afResult[1].type = "normal"
  /\ call.afResult[1].value.status \in 200..299

\* C15: getCurrentUser always settles by returning: null when authFetch
\* threw, when the final response is not a success and when the body does
\* not parse; the parsed body when the final response is a success and the
\* body parses.
C15_GetCurrentUserAbsorbs ==
  \A c \in DOMAIN calls :
    LET call == calls[c] IN
    call.op = "getCurrentUser" =>
      /\ call.json # NULL => UserResponseOk(call)
      /\ call.pc = "done" <=>
           /\ call.afResult # NULL
           /\ UserResponseOk(call) => call.json # NULL
      /\ call.pc = "done" =>
           call.result =
             Just(Normal(IF UserResponseOk(call) /\ call.json[1].kind = "parsed"
                         THEN Just(call.json[1].body) ELSE NULL))
      /\ call.pc # "done" => call.result = NULL

\* authFetch threw (the cookie value was malformed) and getCurrentUser
\* returned null
C15_Witness ==
  \E c \in DOMAIN calls :
    /\ calls[c].op = "getCurrentUser"
    /\ calls[c].afResult = Just(Throw(URIError))
    /\ calls[c].result = Just(Normal(NULL))

\* the entry "key=value" read as the cookie standard reads it: the key is
\* what precedes the first '=', the value everything after it
KeyOf(entry) == Split(entry, EQ)[1]

ValueOf(entry) ==
  IF Len(Split(entry, EQ)) < 2 THEN << >>
  ELSE SubSeq(entry, Len(KeyOf(entry)) + 2, Len(entry))

RECURSIVE FirstWithKey(_, _, _)
FirstWithKey(entries, key, i) ==
  IF i > Len(entries) THEN NULL
  ELSE IF Len(Split(entries[i], EQ)) >= 2 /\ KeyOf(entries[i]) = key THEN Just(i)
  ELSE FirstWithKey(entries, key, i + 1)

\* the full URL-decoded value of the first entry whose key is exactly
\* authgate_csrf, absence when there is none
FullValueOfCsrfEntry(doc) ==
  LET entries == Split(doc, COOKIE_SEP)
      i == FirstWithKey(entries, CSRF_COOKIE, 1)
  IN IF i = NULL THEN Normal(NULL)
     ELSE LET d == decodeURIComponent(ValueOf(entries[i[1]]))
          IN IF d.type = "normal" THEN Normal(Just(d.value)) ELSE d

\* C16, as claimed: getCSRFToken returns the full URL-decoded value of the
\* first entry whose key is exactly authgate_csrf, '=' characters of the
\* value included, and absence when no entry has that key.
C16_FullValueOfFirstEntry ==
  \A c \in DOMAIN calls :
    (calls[c].op = "getCSRFToken" /\ calls[c].pc = "done") =>
      calls[c].result = Just(FullValueOfCsrfEntry(calls[c].reads[1].doc))

\* C17, as claimed: reading the cookie never throws, whatever the cookie
\* string holds.
C17_ReadNeverThrows ==
  \A c \in DOMAIN calls :
    (calls[c].op = "getCSRFToken" /\ calls[c].pc = "done") =>
      calls[c].result[1].type = "normal"

\* C18: when the cookie string holds authgate_csrf=<URL-encoding of t>,
\* alone or after another cookie, getCSRFToken returns exactly t.
C18_RoundTrip ==
  \A c \in DOMAIN calls :
    (calls[c].op = "getCSRFToken" /\ calls[c].pc = "done") =>
      \A t \in Tokens :
        calls[c].reads[1].doc \in
            {EncodedEntry(t), OTHER_COOKIE \o COOKIE_SEP \o EncodedEntry(t)} =>
          calls[c].result = Just(Normal(Just(t)))

\* the token "=;" was stored as "%3D%3B" after another cookie and read back
C18_Witness ==
  \E c \in DOMAIN calls :
    /\ calls[c].op = "getCSRFToken"
    /\ calls[c].reads[1].doc = OTHER_COOKIE \o COOKIE_SEP \o EncodedEntry(<<61, 59>>)
    /\ calls[c].result = Just(Normal(Just(<<61, 59>>)))

\* the options of a request are the caller's, but for credentials = "include"
SameButCredentials(sent, init) ==
  /\ DOMAIN sent = (DOMAIN init) \cup {"credentials"}
  /\ sent["credentials"] = "include"
  /\ \A k \in (DOMAIN init) \ {"credentials"} : sent[k] = init[k]

\* C19: the initial request and the retry of authFetch go to the caller's
\* input with the caller's options, changed only in credentials = "include":
\* method, body and headers are the caller's (no X-CSRF-Token is added), and
\* the caller's options object is left as it was passed.
C19_CallerRequestPreserved ==
  \A c \in DOMAIN calls :
    LET call == calls[c] IN
    call.op = "authFetch" =>
      /\ call.af[1].input = call.args[1].input
      /\ call.af[1].init = call.args[1].init
      /\ \A i \in 1..Len(call.log) :
           call.sites[i] \in {"await_initial", "await_retry"} =>
             /\ call.log[i].input = call.args[1].input
             /\ SameButCredentials(call.log[i].init, call.args[1].init)
             /\ "headers" \in DOMAIN call.log[i].init =>
                  "X-CSRF-Token" \notin DOMAIN call.log[i].init["headers"]

\* a call made with credentials "omit" and a header was retried with the
\* same header and credentials "include"
C19_Witness ==
  \E c \in DOMAIN calls :
    /\ calls[c].op = "authFetch"
    /\ calls[c].args[1].init =
         [credentials |-> "omit", headers |-> [h \in {"X-Test"} |-> "1"]]
    /\ Len(calls[c].log) = 3
    /\ calls[c].sites[3] = "await_retry"
    /\ calls[c].log[3].init =
         [credentials |-> "include", headers |-> [h \in {"X-Test"} |-> "1"]]

\* C20: no step of the library changes document.cookie; the cookie string
\* only changes by a step of the browser or the auth service, which changes
\* no call of the library.
C20_CookieStoreUntouched ==
  [][\A c \in DOMAIN calls : calls'[c] # calls[c] => cookie' = cookie]_vars

\* a logout succeeded and navigated while the cookie string it had read is
\* still in place
C20_Witness ==
  \E c \in DOMAIN calls :
    /\ calls[c].op = "logout"
    /\ calls[c].result = Just(Normal([ok |-> TRUE]))
    /\ calls[c].nav # NULL
    /\ calls[c].reads[1].doc = cookie
    /\ cookie # << >>

\* the state of the authFetch invocation of a call, in the spec's names
AuthFetchState(call) ==
  IF call.af = NULL THEN "Initial"
  ELSE IF call.afResult # NULL THEN "Done"
  ELSE CASE call.pc = "await_initial" -> "Issued"
         [] call.pc = "await_refresh" -> "Refreshing"
         [] call.pc = "await_retry" -> "Retried"
         [] OTHER -> "Unknown"

\* Initial -> Issued -> (Done | Refreshing -> (Retried -> Done | Done))
AuthFetchTransitions ==
  { <<"Initial", "Issued">>, <<"Issued", "Done">>, <<"Issued", "Refreshing">>,
    <<"Refreshing", "Retried">>, <<"Refreshing", "Done">>, <<"Retried", "Done">> }

\* every request but the last has settled, and the last is the only one that
\* may be in flight
C21_OneInFlight ==
  \A c \in DOMAIN calls :
    LET call == calls[c] IN
    call.af # NULL =>
      /\ AuthFetchState(call) # "Unknown"
      /\ call.sites = SubSeq(<<"await_initial", "await_refresh", "await_retry">>,
                             1, Len(call.log))
      /\ Len(call.outcomes) \in {Len(call.log) - 1, Len(call.log)}
      /\ call.pending = IF Len(call.outcomes) < Len(call.log)
                        THEN {Len(call.log)} ELSE {}
      /\ (AuthFetchState(call) = "Done") = (call.pending = {})

\* a step of a call either moves its authFetch invocation along a transition
\* of the diagram, or leaves a finished invocation behind (its caller goes
\* on, or the caller starts another operation)
C21_Step ==
  \A c \in DOMAIN calls :
    calls'[c] # calls[c] =>
      LET s == AuthFetchState(calls[c])
          t == AuthFetchState(calls'[c])
      IN \/ <<s, t>> \in AuthFetchTransitions
         \/ s \in {"Initial", "Done"} /\ t \in {"Initial", "Issued", "Done"}

\* C21: the steps of one authFetch invocation are strictly sequential and
\* follow Initial -> Issued -> (Done | Refreshing -> (Retried -> Done | Done)):
\* the refresh is issued only after the initial request has settled, the
\* retry only after the refresh has settled, and the invocation never has two
\* requests in flight.
C21_StrictlySequential == [](C21_OneInFlight) /\ [][C21_Step]_vars

\* the retry is in flight, the initial request and the refresh have settled
C21_Witness ==
  \E c \in DOMAIN calls :
    /\ calls[c].op = "authFetch"
    /\ AuthFetchState(calls[c]) = "Retried"
    /\ calls[c].pending = {3}
    /\ Len(calls[c].outcomes) = 2

\* the refresh requests issued by the authFetch calls, one pair per request
RefreshRequests ==
  {p \in (DOMAIN calls) \X (1..3) :
     /\ calls[p[1]].af # NULL
     /\ p[2] <= Len(calls[p[1]].sites)
     /\ calls[p[1]].sites[p[2]] = "await_refresh"}

\* the initial request of the call was answered 401
Saw401(call) ==
  call.af # NULL /\ call.res # NULL /\ call.res[1].status = 401

\* the calls that received a 401 and then read a CSRF token
Saw401WithToken ==
  {c \in DOMAIN calls :
     /\ Saw401(calls[c])
     /\ Len(calls[c].reads) = 1
     /\ calls[c].reads[1].got.type = "normal"
     /\ Truthy(calls[c].reads[1].got.value)}

\* C22: concurrent authFetch calls are not coordinated: every call that
\* receives a 401 reads the cookie itself and, with a token present, issues
\* its own refresh request whatever the other calls are doing, so there are
\* as many refresh requests as calls that saw a 401 with a token; each call
\* makes at most one refresh and one retry under every interleaving.
C22_UncoordinatedRefreshes ==
  /\ Cardinality(RefreshRequests) = Cardinality(Saw401WithToken)
  /\ \A c \in DOMAIN calls :
       LET call == calls[c] IN
       /\ Saw401(call) => Len(call.reads) = 1
       /\ c \in Saw401WithToken => Count(call.sites, "await_refresh") = 1
       /\ Count(call.sites, "await_refresh") <= 1
       /\ Count(call.sites, "await_retry") <= 1
       /\ Len(call.log) <= 3

\* two calls have each received a 401 and each has its own refresh request
\* in flight at the same time
C22_Witness ==
  \E c, d \in DOMAIN calls :
    /\ c # d
    /\ calls[c].pc = "await_refresh" /\ calls[c].pending = {2}
    /\ calls[d].pc = "await_refresh" /\ calls[d].pending = {2}
    /\ Cardinality(RefreshRequests) >= 2

\* the step of call c in which it reads the cookie: the call of logout,
\* refreshSession or getCSRFToken, and for authFetch the continuation of the
\* initial request (where refreshSession is called)
ReadsCookieNow(old, new) ==
  \/ old.pc \in {"idle", "done"} /\ new.op \in {"logout", "refreshSession", "getCSRFToken"}
  \/ old.pc = "await_initial" /\ Len(new.reads) = 1

\* the logout or refresh request the step issued, if any
IssuedCsrfRequest(old, new) ==
  IF new.pending # {} /\ new.pc \in {"await_logout", "await_refresh"}
       /\ (old.pc # new.pc \/ old.pc \in {"idle", "done"})
  THEN Just(new.log[Len(new.log)]) ELSE NULL

\* whether a token read lets the request go out (refreshSession also needs an
\* audience it can encode)
SendsWith(new, t) ==
  /\ t.type = "normal"
  /\ Truthy(t.value)
  /\ new.op # "logout" =>
       encodeURIComponent(IF new.af # NULL THEN new.af[1].audience
                          ELSE audienceParam(new.args[1].audience)).type = "normal"

\* every read is of the cookie string of that very step, and the request
\* carries the token Held(cookie) of that cookie string
FreshStep(Held(_)) ==
  \A c \in DOMAIN calls :
    calls'[c] # calls[c] =>
      LET old == calls[c]
          new == calls'[c]
          t == Held(cookie)
          req == IssuedCsrfRequest(old, new)
      IN /\ (old.pc \in {"idle", "done"} /\ new.af # NULL) => new.reads = << >>
         /\ ReadsCookieNow(old, new) =>
              /\ new.reads = << [doc |-> cookie, got |-> t] >>
              /\ (req # NULL) = (new.op # "getCSRFToken" /\ SendsWith(new, t))
              /\ req # NULL => req[1].init["headers"]["X-CSRF-Token"] = t.value[1]
         /\ ~ReadsCookieNow(old, new) =>
              /\ req = NULL
              /\ new.reads = IF old.pc \in {"idle", "done"} THEN << >> ELSE old.reads

\* C23, as claimed: the CSRF token is never cached: every logout,
\* refreshSession and refresh inside authFetch reads document.cookie in the
\* step that decides about its request and sends the token value the cookie
\* holds at that moment (the decoded value of its authgate_csrf entry);
\* authFetch does not read at call time but after its initial response has
\* arrived.
C23_SendsTokenTheCookieHolds == [][FreshStep(FullValueOfCsrfEntry)]_vars

\* C23, the part that holds: no read is cached, every request carries what
\* getCSRFToken returns for the cookie string of the step that issues it.
C23_TokenReadFresh == [][FreshStep(getCSRFToken)]_vars

\* the X-CSRF-Token headers of the requests a call sent to /auth/logout and
\* /auth/refresh
CsrfHeadersSent(call) ==
  {call.log[i].init["headers"]["X-CSRF-Token"] :
     i \in {k \in 1..Len(call.log) : call.sites[k] \in {"await_logout", "await_refresh"}}}

\* C24, as claimed: every request to /auth/logout or /auth/refresh carries
\* an X-CSRF-Token header that is non-empty and equal to the decoded value of
\* the authgate_csrf cookie; a cookie present with an empty value is treated
\* like a missing one (missing_csrf, false, no request).
C24_HeaderIsDecodedCookie ==
  \A c \in DOMAIN calls :
    LET call == calls[c] IN
    /\ \A h \in CsrfHeadersSent(call) :
         /\ h # << >>
         /\ FullValueOfCsrfEntry(call.reads[1].doc) = Normal(Just(h))
    /\ (call.reads # << >> /\ call.op # "getCSRFToken"
          /\ FullValueOfCsrfEntry(call.reads[1].doc) = Normal(Just(<< >>))) =>
         /\ CsrfHeadersSent(call) = {}
         /\ call.op = "logout" =>
              call.result = Just(Normal([ok |-> FALSE, reason |-> "missing_csrf"]))
         /\ call.op = "refreshSession" => call.result = Just(Normal(FALSE))

\* an authFetch invocation of call c has been made and has not settled
AuthFetchPending(c) == calls[c].af # NULL /\ calls[c].afResult = NULL

\* an invocation that has not settled has exactly one request in flight, one
\* of at most three
C25_PendingOnlyOnRequest ==
  \A c \in DOMAIN calls :
    AuthFetchPending(c) =>
      /\ calls[c].pending = {Len(calls[c].log)}
      /\ Len(calls[c].log) \in 1..3
      /\ Len(calls[c].outcomes) = Len(calls[c].log) - 1

\* C25: when every network request eventually settles, every authFetch
\* invocation eventually reaches Done (a response returned or an exception
\* propagated); there is no loop, and an invocation that is still pending is
\* waiting for one of its at most three requests.
C25_Terminates ==
  /\ [](C25_PendingOnlyOnRequest)
  /\ \A c \in Callers : AuthFetchPending(c) ~> ~AuthFetchPending(c)

\* an invocation went through all three requests and reached Done
C25_Witness ==
  \E c \in DOMAIN calls :
    /\ calls[c].op = "authFetch"
    /\ ~AuthFetchPending(c)
    /\ Len(calls[c].outcomes) = 3
    /\ calls[c].pc = "done"
    /\ calls[c].result = calls[c].afResult

=============================================================================
